---- MODULE Spec2Model ----
(***************************************************************************)
(* One run of the Streamlit script src/main.py: credential discovery, the  *)
(* sidebar, construction of DeepSeekClient, the connection test, data      *)
(* loading and the "generate" button handler, with the retrying            *)
(* DeepSeekClient.chat_completions in between.                             *)
(*                                                                         *)
(* Strings that are sliced (the credential) are tuples of one-character    *)
(* strings; None and "" are both the empty tuple where the code only       *)
(* tests truthiness.                                                       *)
(***************************************************************************)
EXTENDS Integers, Sequences, FiniteSets, TLC

VARIABLES
    pc,                \* position of the script run
    process_env,       \* the environment the process was started with
    os_environ,        \* os.environ (the two DEEPSEEK variables)
    dotenv_file,       \* the .env file load_dotenv() reads
    secrets,           \* st.secrets
    widgets,           \* what the user entered / clicked for this run
    files,             \* whether the data files and the prompt template load
    deepseek_api_key,  \* module-level variable
    key_sources,       \* module-level variable
    client,            \* the DeepSeekClient instance (exists = FALSE before)
    calls,             \* the chat_completions invocations of the run, the last one current
    stdout,            \* print() output
    ui,                \* st.* output
    test_response,     \* module-level variable (0 or 1 parsed bodies)
    response,          \* generate handler's local (0 or 1 parsed bodies)
    itinerary          \* generate handler's local (0 or 1 strings)

vars == <<pc, process_env, os_environ, dotenv_file, secrets, widgets, files, deepseek_api_key,
          key_sources, client, calls, stdout, ui, test_response, response,
          itinerary>>

-----------------------------------------------------------------------------
(* Bounds *)

\* longest "choices" list a response body carries
MaxChoices == 1

\* how far the wait function is tabulated beyond the attempts a call makes
WaitProbe == 8

-----------------------------------------------------------------------------
(* Values *)

ProcApiVal == <<"s", "k", "-", "a", "p", "i">>
ProcKeyVal == <<"s", "k", "-", "k", "e", "y">>
DotApiVal  == <<"s", "k", "-", "d", "o", "t", "a">>
DotKeyVal  == <<"s", "k", "-", "d", "o", "t", "k">>
SecretVal  == <<"s", "k", "-", "s", "e", "c">>
UserVal    == <<"s", "k", "-", "u", "s", "r">>

Unset == [set |-> FALSE, val |-> <<>>]
EnvVal(v) == [set |-> TRUE, val |-> v]

\* `if x:` on a str-or-None
Truthy(v) == Len(v) > 0

\* os.getenv(name): the value, or None (here <<>>) when unset
Getenv(env, name) == IF env[name].set THEN env[name].val ELSE <<>>

\* s[:n]
Slice(s, n) == IF Len(s) <= n THEN s ELSE SubSeq(s, 1, n)

PrefixLen == 4

DEEPSEEK_API_URL == "https://api.deepseek.com/v1"
MODEL_NAME == "deepseek-chat"

Line(tag, value) == [tag |-> tag, value |-> value]
Ui(where, kind, text, detail, payload) ==
    [where |-> where, kind |-> kind, text |-> text, detail |-> detail,
     payload |-> payload]

-----------------------------------------------------------------------------
(* Environment handling and credential discovery, lines 21-83 *)

EnvNames == {"DEEPSEEK_API_KEY", "DEEPSEEK_KEY"}

\* load_dotenv(): override=False, a variable already in os.environ is kept
LoadDotenvInto(env, file) ==
    [n \in EnvNames |-> IF env[n].set THEN env[n] ELSE file[n]]

EnvLine(env, n) == IF env[n].set THEN <<Line(n, env[n].val)>> ELSE <<>>

\* lines 27-30: every variable whose name holds DEEPSEEK or KEY, value in full
DebugEnvPrint(env) ==
    <<Line("env_list", <<>>)>> \o EnvLine(env, "DEEPSEEK_API_KEY")
                               \o EnvLine(env, "DEEPSEEK_KEY")

\* lines 33-39
DebugSecretsPrint(sec) ==
    IF ~sec.available
    THEN <<Line("try_secrets", <<>>), Line("secrets_error", <<>>)>>
    ELSE <<Line("try_secrets", <<>>), Line("secrets_keys", <<>>)>>
         \o (IF sec.has_key
             THEN <<Line("found_DEEPSEEK_KEY", Slice(sec.val, PrefixLen))>>
             ELSE <<>>)

\* st.secrets.get("DEEPSEEK_KEY"), None when absent
SecretsGet(sec) == IF sec.has_key THEN sec.val ELSE <<>>

\* lines 46-49
FromEnvApiKey(env, st) ==
    IF Truthy(Getenv(env, "DEEPSEEK_API_KEY"))
    THEN [key |-> Getenv(env, "DEEPSEEK_API_KEY"),
          sources |-> Append(st.sources, "env:DEEPSEEK_API_KEY"),
          out |-> Append(st.out, Line("from_env_DEEPSEEK_API_KEY", <<>>))]
    ELSE st

\* lines 51-54
FromEnvKey(env, st) ==
    IF ~Truthy(st.key) /\ Truthy(Getenv(env, "DEEPSEEK_KEY"))
    THEN [key |-> Getenv(env, "DEEPSEEK_KEY"),
          sources |-> Append(st.sources, "env:DEEPSEEK_KEY"),
          out |-> Append(st.out, Line("from_env_DEEPSEEK_KEY", <<>>))]
    ELSE st

\* lines 57-63: no `not deepseek_api_key` guard
FromSecrets(sec, st) ==
    IF ~sec.available
    THEN [st EXCEPT !.out = Append(@, Line("secrets_warning", <<>>))]
    ELSE IF Truthy(SecretsGet(sec))
    THEN [key |-> SecretsGet(sec),
          sources |-> Append(st.sources, "secrets"),
          out |-> Append(st.out, Line("from_secrets", <<>>))]
    ELSE st

\* lines 66-69
FromDotenv(env, st) ==
    IF ~Truthy(st.key) /\ Truthy(Getenv(env, "DEEPSEEK_API_KEY"))
    THEN [key |-> Getenv(env, "DEEPSEEK_API_KEY"),
          sources |-> Append(st.sources, "dotenv"),
          out |-> Append(st.out, Line("from_dotenv", <<>>))]
    ELSE st

\* lines 42-69
ResolveKey(env, sec) ==
    FromDotenv(env,
        FromSecrets(sec,
            FromEnvKey(env,
                FromEnvApiKey(env, [key |-> <<>>, sources |-> <<>>, out |-> <<>>]))))

-----------------------------------------------------------------------------
(* JSON bodies and exceptions *)

\* one entry of "choices": {"message": {"content": ...}} or an object without "message"
ChoiceValues ==
    {[has_message |-> FALSE, content |-> ""],
     [has_message |-> TRUE, content |-> "pong"],
     [has_message |-> TRUE, content |-> "plan"]}

ChoiceLists == UNION {[1..n -> ChoiceValues] : n \in 0..MaxChoices}

\* a response body on the wire: text that is JSON (an object) or is not
NotJson == [json |-> FALSE, has_choices |-> FALSE, choices |-> <<>>]
JsonObject(has, cl) == [json |-> TRUE, has_choices |-> has, choices |-> cl]

OkBodies ==
    {NotJson, JsonObject(FALSE, <<>>)} \cup {JsonObject(TRUE, cl) : cl \in ChoiceLists}

\* an error body: HTML / empty, or a JSON object such as {"error": ...}
ErrBodies == {NotJson, JsonObject(FALSE, <<>>)}

Exc(type, status, cause) == [type |-> type, status |-> status, cause |-> cause]
NoExc == Exc("none", 0, "none")

\* the httpx exception hierarchy, as far as the except clauses and the retry
\* predicate look at it
Ancestors(type) ==
    CASE type = "ConnectError" ->
            {"ConnectError", "NetworkError", "TransportError", "RequestError", "HTTPError",
             "Exception"}
      [] type = "ReadTimeout" ->
            {"ReadTimeout", "TimeoutException", "TransportError", "RequestError", "HTTPError",
             "Exception"}
      [] type = "ReadError" ->
            {"ReadError", "NetworkError", "TransportError", "RequestError", "HTTPError",
             "Exception"}
      [] type = "HTTPStatusError" -> {"HTTPStatusError", "HTTPError", "Exception"}
      [] OTHER -> {type, "Exception"}

IsInstance(exc, classes) == Ancestors(exc.type) \cap classes # {}

\* what one POST meets: a transport failure, or a response
TransportFailures == {"ConnectError", "ReadTimeout", "ReadError"}
Failure(kind) == [kind |-> kind, status |-> 0, body |-> NotJson]
Reply(status, body) == [kind |-> "response", status |-> status, body |-> body]

Outcomes ==
    {Failure(k) : k \in TransportFailures}
    \cup {Reply(200, b) : b \in OkBodies}
    \cup {Reply(s, b) : s \in {401, 500}, b \in ErrBodies}

\* response.json()
ResponseJson(body) ==
    IF body.json
    THEN [ok |-> TRUE, value |-> [has_choices |-> body.has_choices, choices |-> body.choices],
          exc |-> NoExc]
    ELSE [ok |-> FALSE, value |-> [has_choices |-> FALSE, choices |-> <<>>],
          exc |-> Exc("JSONDecodeError", 0, "none")]

\* response.raise_for_status() raises for these
IsErrorStatus(status) == status >= 400

-----------------------------------------------------------------------------
(* DeepSeekClient, lines 138-175 *)

NoClient == [exists |-> FALSE, api_key |-> <<>>, base_url |-> "", headers |-> <<>>]

\* __init__, lines 139-145
NewDeepSeekClient(api_key) ==
    [exists |-> TRUE, api_key |-> api_key, base_url |-> DEEPSEEK_API_URL,
     headers |-> <<"Bearer">> \o api_key]

\* line 146
InitPrint(api_key) == <<Line("using_api_key", Slice(api_key, PrefixLen))>>

Result(kind, value, exc, shown) ==
    [kind |-> kind, value |-> value, exc |-> exc, ui |-> shown]

\* the except clause without its st.json line
StatusErrorHandlerNoJson(o) ==
    Result("raise", <<>>, Exc("HTTPStatusError", o.status, "none"),
           <<Ui("main", "error", "api_request_failed_http", ToString(o.status), <<>>)>>)

\* lines 169-172: st.error, then st.json(e.response.json()), then raise
StatusErrorHandler(o) ==
    LET shown == <<Ui("main", "error", "api_request_failed_http", ToString(o.status), <<>>)>>
        parsed == ResponseJson(o.body)
    IN  IF parsed.ok
        THEN Result("raise", <<>>, Exc("HTTPStatusError", o.status, "none"),
                    Append(shown, Ui("main", "json", "", "", <<parsed.value>>)))
        ELSE Result("raise", <<>>, parsed.exc, shown)

\* lines 173-175
RequestErrorHandler(exc) ==
    Result("raise", <<>>, exc, <<Ui("main", "error", "network_error", exc.type, <<>>)>>)

\* the body of chat_completions, lines 155-175, against one backend outcome
ChatCompletionsBody(o) ==
    IF o.kind # "response"
    THEN LET e == Exc(o.kind, 0, "none")
         IN  IF IsInstance(e, {"HTTPStatusError"}) THEN StatusErrorHandler(o)
             ELSE IF IsInstance(e, {"RequestError"}) THEN RequestErrorHandler(e)
             ELSE Result("raise", <<>>, e, <<>>)
    ELSE IF IsErrorStatus(o.status) THEN StatusErrorHandler(o)
    ELSE LET parsed == ResponseJson(o.body)
         IN  IF parsed.ok THEN Result("return", <<parsed.value>>, NoExc, <<>>)
             ELSE Result("raise", <<>>, parsed.exc, <<>>)

\* line 164
RequestPrint == <<Line("sending_request_to", <<>>)>>

-----------------------------------------------------------------------------
(* The retry decorator, lines 148-152 *)

MaxAttemptNumber == 3
WaitMultiplier == 1
WaitMin == 2
WaitMax == 20

Max(a, b) == IF a >= b THEN a ELSE b
Min(a, b) == IF a <= b THEN a ELSE b

\* stopping one attempt early
StopAfterAttemptTwo(attempt_number) == attempt_number >= MaxAttemptNumber - 1

\* stop_after_attempt(3)
StopAfterAttempt(attempt_number) == attempt_number >= MaxAttemptNumber

\* the exponent taken from the attempt number itself
WaitExponentialFromTwo(attempt_number) ==
    Max(Max(0, WaitMin), Min(WaitMultiplier * 2 ^ attempt_number, WaitMax))

\* wait_exponential(multiplier=1, min=2, max=20), after the given attempt
WaitExponential(attempt_number) ==
    Max(Max(0, WaitMin), Min(WaitMultiplier * 2 ^ (attempt_number - 1), WaitMax))

\* retrying on timeouts alone
RetryIfTimeoutOnly(exc) == IsInstance(exc, {"TimeoutException"})

\* retry_if_exception_type((httpx.ConnectError, httpx.TimeoutException))
RetryIf(exc) == IsInstance(exc, {"ConnectError", "TimeoutException"})

Request(messages, temperature, max_tokens) ==
    [model |-> MODEL_NAME, messages |-> messages, temperature |-> temperature,
     max_tokens |-> max_tokens]

\* an invocation that inherits the previous invocation's retry state
NewCallStale(purpose, request) ==
    [purpose |-> purpose, request |-> request, state |-> "running",
     attempt_number |-> IF calls = <<>> THEN 1 ELSE calls[Len(calls)].attempt_number,
     posts |-> <<>>,
     delays |-> IF calls = <<>> THEN <<>> ELSE calls[Len(calls)].delays,
     value |-> <<>>, exc |-> NoExc]

\* a fresh invocation: the decorator starts every call at attempt 1
NewCall(purpose, request) ==
    [purpose |-> purpose, request |-> request, state |-> "running",
     attempt_number |-> 1, posts |-> <<>>, delays |-> <<>>, value |-> <<>>,
     exc |-> NoExc]

\* the decorator's decision after one execution of the body
AfterAttempt(c, o, r) ==
    LET done == [c EXCEPT !.posts = Append(@, o)]
    IN  IF r.kind = "return"
        THEN [done EXCEPT !.state = "returned", !.value = r.value]
        ELSE IF ~RetryIf(r.exc)
        THEN [done EXCEPT !.state = "raised", !.exc = r.exc]
        ELSE IF StopAfterAttempt(c.attempt_number)
        THEN [done EXCEPT !.state = "raised",
                          !.exc = Exc("RetryError", 0, r.exc.type)]
        ELSE [done EXCEPT !.attempt_number = @ + 1,
                          !.delays = Append(@, WaitExponential(c.attempt_number))]

-----------------------------------------------------------------------------
(* Reading a parsed response, lines 192-193 and 383-384 *)

\* the test without its length check
HasChoicesNoLen(v) == v.has_choices

\* 'choices' in response and len(response['choices']) > 0
HasChoices(v) == v.has_choices /\ Len(v.choices) > 0

\* response['choices'][0]['message']['content']
MessageContent(v) ==
    IF ~v.has_choices THEN [ok |-> FALSE, content |-> "", exc |-> Exc("KeyError", 0, "none")]
    ELSE IF Len(v.choices) = 0
    THEN [ok |-> FALSE, content |-> "", exc |-> Exc("IndexError", 0, "none")]
    ELSE IF ~v.choices[1].has_message
    THEN [ok |-> FALSE, content |-> "", exc |-> Exc("KeyError", 0, "none")]
    ELSE [ok |-> TRUE, content |-> v.choices[1].content, exc |-> NoExc]

-----------------------------------------------------------------------------
(* The script run *)

IdleCall ==
    [purpose |-> "none", request |-> Request("", "", 0), state |-> "idle",
     attempt_number |-> 0, posts |-> <<>>, delays |-> <<>>, value |-> <<>>,
     exc |-> NoExc]

\* the chat_completions invocation in progress, or the last one
call == IF calls = <<>> THEN IdleCall ELSE calls[Len(calls)]

ProcEnvs ==
    [DEEPSEEK_API_KEY : {Unset, EnvVal(<<>>), EnvVal(ProcApiVal)},
     DEEPSEEK_KEY : {Unset, EnvVal(ProcKeyVal)}]

DotenvFiles ==
    [DEEPSEEK_API_KEY : {Unset, EnvVal(DotApiVal)},
     DEEPSEEK_KEY : {Unset, EnvVal(DotKeyVal)}]

NoSecrets == [available |-> FALSE, has_key |-> FALSE, val |-> <<>>]

SecretStores ==
    {NoSecrets,
     [available |-> TRUE, has_key |-> FALSE, val |-> <<>>],
     [available |-> TRUE, has_key |-> TRUE, val |-> <<>>],
     [available |-> TRUE, has_key |-> TRUE, val |-> SecretVal]}

DataStates == {"ok", "one_food", "load_failed", "empty_attractions", "empty_foods"}

Start ==
    /\ pc = "start"
    /\ deepseek_api_key = <<>>
    /\ key_sources = <<>>
    /\ client = NoClient
    /\ calls = <<>>
    /\ stdout = <<>>
    /\ ui = <<>>
    /\ test_response = <<>>
    /\ response = <<>>
    /\ itinerary = <<>>

\* every environment the credential can come from; the run ends once the client exists
InitCred ==
    /\ Start
    /\ process_env \in ProcEnvs
    /\ os_environ = process_env
    /\ dotenv_file \in DotenvFiles
    /\ secrets \in SecretStores
    /\ widgets \in [text_input : {<<>>, UserVal}, generate_button : {FALSE}]
    /\ files = [data |-> "ok", template_ok |-> TRUE]

\* a whole run, the credential from the environment or typed in
Init ==
    /\ Start
    /\ process_env \in {e \in ProcEnvs : ~e.DEEPSEEK_KEY.set /\ e.DEEPSEEK_API_KEY # EnvVal(<<>>)}
    /\ os_environ = process_env
    /\ dotenv_file = [DEEPSEEK_API_KEY |-> Unset, DEEPSEEK_KEY |-> Unset]
    /\ secrets = NoSecrets
    /\ widgets \in [text_input : {<<>>, UserVal}, generate_button : BOOLEAN]
    /\ files \in [data : DataStates, template_ok : BOOLEAN]

Inputs == <<process_env, dotenv_file, secrets, widgets, files>>

\* line 21
LoadDotenv ==
    /\ pc = "start"
    /\ os_environ' = LoadDotenvInto(os_environ, dotenv_file)
    /\ pc' = "debug"
    /\ UNCHANGED <<Inputs, deepseek_api_key, key_sources, client, calls, stdout, ui,
                   test_response, response, itinerary>>

\* lines 24-39
DebugPrints ==
    /\ pc = "debug"
    /\ stdout' = stdout \o <<Line("getting_key", <<>>)>> \o DebugEnvPrint(os_environ)
                        \o DebugSecretsPrint(secrets)
    /\ pc' = "resolve"
    /\ UNCHANGED <<Inputs, os_environ, deepseek_api_key, key_sources, client, calls, ui,
                   test_response, response, itinerary>>

\* lines 42-83
ResolveCredential ==
    /\ pc = "resolve"
    /\ LET r == ResolveKey(os_environ, secrets)
       IN  /\ deepseek_api_key' = r.key
           /\ IF ~Truthy(r.key)
              THEN /\ ui' = ui \o <<Ui("main", "warning", "key_not_found", "", <<>>),
                                    Ui("main", "info", "provide_key", "", <<>>)>>
                   /\ key_sources' = Append(r.sources, "user_input")
                   /\ stdout' = stdout \o r.out \o <<Line("no_key_warning", <<>>)>>
              ELSE /\ ui' = ui
                   /\ key_sources' = r.sources
                   /\ stdout' = stdout \o r.out
    /\ pc' = "sidebar"
    /\ UNCHANGED <<Inputs, os_environ, client, calls, test_response, response, itinerary>>

\* lines 90-135
Sidebar ==
    /\ pc = "sidebar"
    /\ IF ~Truthy(deepseek_api_key)
       THEN /\ deepseek_api_key' = widgets.text_input
            /\ IF ~Truthy(widgets.text_input)
               THEN /\ ui' = Append(ui, Ui("sidebar", "error", "provide_key", "", <<>>))
                    /\ key_sources' = key_sources
                    /\ pc' = "stopped"
               ELSE /\ ui' = ui \o <<Ui("sidebar", "success", "key_entered", "", <<>>),
                                     Ui("sidebar", "info", "model", MODEL_NAME, <<>>)>>
                    /\ key_sources' = <<"user_input">>
                    /\ pc' = "client"
       ELSE /\ deepseek_api_key' = deepseek_api_key
            /\ ui' = ui \o <<Ui("sidebar", "success", "key_from_sources", "", <<>>),
                             Ui("sidebar", "info", "model", MODEL_NAME, <<>>)>>
            /\ key_sources' = key_sources
            /\ pc' = "client"
    /\ UNCHANGED <<Inputs, os_environ, client, calls, stdout, test_response, response,
                   itinerary>>

\* lines 178-182
CreateClient ==
    /\ pc = "client"
    /\ IF Truthy(deepseek_api_key)
       THEN /\ client' = NewDeepSeekClient(deepseek_api_key)
            /\ stdout' = stdout \o InitPrint(deepseek_api_key)
            /\ ui' = ui
            /\ pc' = "conn_test"
       ELSE /\ client' = client
            /\ stdout' = stdout
            /\ ui' = Append(ui, Ui("main", "error", "no_key_no_client", "", <<>>))
            /\ pc' = "stopped"
    /\ UNCHANGED <<Inputs, os_environ, deepseek_api_key, key_sources, calls,
                   test_response, response, itinerary>>

\* lines 185-191: the connection test invokes chat_completions
ConnTestCall ==
    /\ pc = "conn_test"
    /\ stdout' = Append(stdout, Line("testing_connection", <<>>))
    /\ calls' = Append(calls, NewCall("test", Request("test_message", "0.7", 10)))
    /\ pc' = "test_call"
    /\ UNCHANGED <<Inputs, os_environ, deepseek_api_key, key_sources, client, ui,
                   test_response, response, itinerary>>

\* one execution of chat_completions' body under the retry decorator: the POST,
\* the except clauses, and the decorator's return / raise / sleep-and-retry
Attempt ==
    /\ pc \in {"test_call", "gen_call"}
    /\ call.state = "running"
    /\ \E o \in Outcomes :
          LET r == ChatCompletionsBody(o)
          IN  /\ calls' = [calls EXCEPT ![Len(calls)] = AfterAttempt(call, o, r)]
              /\ ui' = ui \o r.ui
              /\ stdout' = stdout \o RequestPrint
    /\ UNCHANGED <<Inputs, os_environ, deepseek_api_key, key_sources, client, pc,
                   test_response, response, itinerary>>

\* lines 199 and 400: except Exception
CaughtByHandler(exc) == IsInstance(exc, {"Exception"})

\* what the code between lines 192-198 / 383-398 does with a parsed response
ReadResponse(v) ==
    IF HasChoices(v)
    THEN LET m == MessageContent(v)
         IN  IF m.ok THEN [kind |-> "content", content |-> m.content, exc |-> NoExc]
             ELSE [kind |-> "raise", content |-> "", exc |-> m.exc]
    ELSE [kind |-> "malformed", content |-> "", exc |-> NoExc]

ConnTestFailed(exc) ==
    <<Ui("sidebar", "error", "connection_test_failed", exc.type, <<>>),
      Ui("sidebar", "warning", "check_key_and_network", "", <<>>)>>

\* lines 187-201, once chat_completions has returned or raised
ConnTestDone ==
    /\ pc = "test_call"
    /\ call.state \in {"returned", "raised"}
    /\ LET got == IF call.state = "raised"
                  THEN [kind |-> "raise", content |-> "", exc |-> call.exc]
                  ELSE ReadResponse(call.value[1])
       IN  /\ test_response' = IF call.state = "returned" THEN call.value ELSE test_response
           /\ IF got.kind = "content"
              THEN /\ ui' = Append(ui, Ui("sidebar", "success", "connection_ok", "", <<>>))
                   /\ stdout' = Append(stdout, Line("connection_ok", <<>>))
                   /\ pc' = "load_data"
              ELSE IF got.kind = "malformed"
              THEN /\ ui' = ui \o <<Ui("sidebar", "error", "response_format", "", <<>>),
                                    Ui("sidebar", "json", "", "", call.value)>>
                   /\ stdout' = stdout
                   /\ pc' = "load_data"
              ELSE IF CaughtByHandler(got.exc)
              THEN /\ ui' = ui \o ConnTestFailed(got.exc)
                   /\ stdout' = stdout
                   /\ pc' = "load_data"
              ELSE /\ ui' = ui
                   /\ stdout' = stdout
                   /\ pc' = "crashed"
    /\ UNCHANGED <<Inputs, os_environ, deepseek_api_key, key_sources, client, calls,
                   response, itinerary>>

\* lines 255-311
LoadData ==
    /\ pc = "load_data"
    /\ IF files.data \in {"ok", "one_food"}
       THEN /\ ui' = Append(ui, Ui("main", "title", "title", "", <<>>))
            /\ stdout' = Append(stdout, Line("record_counts", <<>>))
            /\ pc' = "button"
       ELSE /\ ui' = Append(ui, Ui("main", "error", files.data, "", <<>>))
            /\ stdout' = stdout
            /\ pc' = "stopped"
    /\ UNCHANGED <<Inputs, os_environ, deepseek_api_key, key_sources, client, calls,
                   test_response, response, itinerary>>

\* lines 372-379: the button, build_prompt, and get_ai_response invoking chat_completions
GenerateButton ==
    /\ pc = "button"
    /\ IF ~widgets.generate_button
       THEN /\ pc' = "footer"
            /\ UNCHANGED <<ui, stdout, calls>>
       ELSE IF ~files.template_ok
       THEN /\ ui' = Append(ui, Ui("main", "error", "prompt_failed", "", <<>>))
            /\ stdout' = Append(stdout, Line("building_prompt", <<>>))
            /\ calls' = calls
            /\ pc' = "stopped"
       ELSE /\ ui' = ui
            /\ stdout' = stdout \o <<Line("building_prompt", <<>>), Line("prompt", <<>>),
                                     Line("calling_api", <<>>)>>
            /\ calls' = Append(calls, NewCall("generate", Request("prompt", "0.7", 4000)))
            /\ pc' = "gen_call"
    /\ UNCHANGED <<Inputs, os_environ, deepseek_api_key, key_sources, client,
                   test_response, response, itinerary>>

GenerateFailed(exc) ==
    <<Ui("main", "error", "generate_failed", exc.type, <<>>),
      Ui("main", "markdown", "try_these", "", <<>>),
      Ui("main", "button", "status_button", "", <<>>)>>

\* lines 368-370 and 380-411, once chat_completions has returned or raised
GenerateDone ==
    /\ pc = "gen_call"
    /\ call.state \in {"returned", "raised"}
    /\ LET got == IF call.state = "raised"
                  THEN [kind |-> "raise", content |-> "", exc |-> call.exc]
                  ELSE ReadResponse(call.value[1])
       IN  /\ response' = IF call.state = "returned" THEN call.value ELSE response
           /\ stdout' = Append(stdout, IF call.state = "raised"
                                       THEN Line("api_call_failed", <<>>)
                                       ELSE Line("response_time", <<>>))
           /\ IF got.kind = "content"
              THEN /\ itinerary' = <<got.content>>
                   /\ ui' = ui \o <<Ui("main", "success", "generated", "", <<>>),
                                    Ui("main", "markdown", got.content, "", <<>>),
                                    Ui("main", "download_button", got.content, "", <<>>)>>
                   /\ pc' = "footer"
              ELSE IF got.kind = "malformed"
              THEN /\ itinerary' = itinerary
                   /\ ui' = ui \o <<Ui("main", "error", "response_format", "", <<>>),
                                    Ui("main", "json", "", "", call.value)>>
                   /\ pc' = "footer"
              ELSE IF CaughtByHandler(got.exc)
              THEN /\ itinerary' = itinerary
                   /\ ui' = ui \o GenerateFailed(got.exc)
                   /\ pc' = "footer"
              ELSE /\ itinerary' = itinerary
                   /\ ui' = ui
                   /\ pc' = "crashed"
    /\ UNCHANGED <<Inputs, os_environ, deepseek_api_key, key_sources, client, calls,
                   test_response>>

\* lines 414-428: foods.sample(2) raises when the table has a single row
Footer ==
    /\ pc = "footer"
    /\ IF files.data = "one_food"
       THEN /\ stdout' = Append(stdout, Line("attractions_sample", <<>>))
            /\ ui' = ui
            /\ pc' = "crashed"
       ELSE /\ stdout' = stdout \o <<Line("attractions_sample", <<>>),
                                     Line("foods_sample", <<>>),
                                     Line("culture_sample", <<>>)>>
            /\ ui' = Append(ui, Ui("main", "markdown", "footer", "", <<>>))
            /\ pc' = "done"
    /\ UNCHANGED <<Inputs, os_environ, deepseek_api_key, key_sources, client, calls,
                   test_response, response, itinerary>>

NextCred ==
    \/ LoadDotenv
    \/ DebugPrints
    \/ ResolveCredential
    \/ Sidebar
    \/ CreateClient

Next ==
    \/ NextCred
    \/ ConnTestCall
    \/ Attempt
    \/ ConnTestDone
    \/ LoadData
    \/ GenerateButton
    \/ GenerateDone
    \/ Footer

Spec == Init /\ [][Next]_vars

SpecCred == InitCred /\ [][NextCred]_vars

-----------------------------------------------------------------------------
(* Properties *)

\* a connection-establishment failure or a request timeout
Transient(o) == o.kind \in {"ConnectError", "ReadTimeout"}
AllTransient(posts) == \A j \in 1..Len(posts) : Transient(posts[j])
Is2xx(o) == o.kind = "response" /\ o.status >= 200 /\ o.status < 300
IsErrorReply(o) == o.kind = "response" /\ o.status >= 400
LastN(s, n) == SubSeq(s, Len(s) - n + 1, Len(s))
CallOf(cs) == IF cs = <<>> THEN IdleCall ELSE cs[Len(cs)]

\* C1: a chat_completions call whose attempts all fail with a connection failure
\* or a timeout makes exactly 3 POSTs: it is still running after the 1st and the
\* 2nd failure, and it has raised, with no 4th attempt, after the 3rd.
C1_ThreeAttemptsThenFailure ==
    \A i \in 1..Len(calls) :
        LET c == calls[i]
        IN  (Len(c.posts) >= 1 /\ AllTransient(c.posts)) =>
                /\ Len(c.posts) <= 3
                /\ (Len(c.posts) < 3 => c.state = "running")
                /\ (Len(c.posts) = 3 => c.state = "raised")

C1_Witness ==
    \E i \in 1..Len(calls) :
        /\ Len(calls[i].posts) = 3
        /\ AllTransient(calls[i].posts)
        /\ calls[i].state = "raised"

\* C2: a response with status >= 400, on whichever attempt it arrives, is the
\* call's last attempt, and the call raises an HTTPStatusError that carries that
\* status code.
C2_StatusErrorSurfacedUnretried ==
    \A i \in 1..Len(calls) :
        LET c == calls[i]
        IN  \A k \in 1..Len(c.posts) :
                IsErrorReply(c.posts[k]) =>
                    /\ k = Len(c.posts)
                    /\ c.state = "raised"
                    /\ c.exc.type = "HTTPStatusError"
                    /\ c.exc.status = c.posts[k].status

\* C3: after k-1 connection failures or timeouts (k <= 3) the call goes on to
\* attempt k; a 2xx response on attempt k is the call's last attempt, ends the
\* call after exactly k attempts, and, when its body decodes, the call returns
\* that body's parsed value.
C3_SuccessAfterTransientFailures ==
    \A i \in 1..Len(calls) :
        LET c == calls[i]
            k == Len(c.posts)
        IN  /\ (k >= 1 /\ k < 3 /\ AllTransient(c.posts)) =>
                    (c.state = "running" /\ c.attempt_number = k + 1)
            /\ \A j \in 1..k :
                  Is2xx(c.posts[j]) =>
                      /\ j = k
                      /\ k <= 3
                      /\ c.attempt_number = k
                      /\ c.state # "running"
                      /\ c.posts[j].body.json =>
                            /\ c.state = "returned"
                            /\ c.value = <<[has_choices |-> c.posts[j].body.has_choices,
                                            choices |-> c.posts[j].body.choices]>>

C3_Witness ==
    \E i \in 1..Len(calls) :
        /\ calls[i].posts =
              <<Failure("ReadTimeout"), Failure("ReadTimeout"),
                Reply(200, JsonObject(TRUE, <<[has_message |-> TRUE, content |-> "pong"]>>))>>
        /\ calls[i].state = "returned"
        /\ calls[i].value[1].choices[1].content = "pong"

\* C4: when the retries are exhausted, the exception the caller receives is the
\* last attempt's own connection / timeout exception.
C4_ExhaustionRaisesLastNetworkError ==
    \A i \in 1..Len(calls) :
        LET c == calls[i]
        IN  (c.state = "raised" /\ Len(c.posts) = 3 /\ AllTransient(c.posts)) =>
                /\ c.exc.type = c.posts[3].kind
                /\ c.exc.type # "HTTPStatusError"

\* the generate handler has dealt with a parsed 2xx body
GenerateHandled == call.purpose = "generate" /\ call.state = "returned" /\ pc # "gen_call"

\* C5: once the generate handler has dealt with a parsed 2xx body: with a
\* non-empty choices list whose first entry has message.content, the itinerary
\* is that string and it is what is shown and offered for download; with choices
\* absent or empty, the format error and the raw payload are shown; and the
\* handler itself never ends the run with an unhandled exception.
C5_ItineraryOrMalformedResponse ==
    GenerateHandled =>
        LET v == call.value[1]
        IN  /\ response = <<v>>
            /\ (v.has_choices /\ Len(v.choices) > 0 /\ v.choices[1].has_message) =>
                  /\ itinerary = <<v.choices[1].content>>
                  /\ pc = "footer" =>
                        LastN(ui, 2) =
                            <<Ui("main", "markdown", v.choices[1].content, "", <<>>),
                              Ui("main", "download_button", v.choices[1].content, "", <<>>)>>
            /\ (~v.has_choices \/ Len(v.choices) = 0) =>
                  /\ itinerary = <<>>
                  /\ pc = "footer" =>
                        LastN(ui, 2) =
                            <<Ui("main", "error", "response_format", "", <<>>),
                              Ui("main", "json", "", "", <<v>>)>>
            /\ pc = "crashed" => stdout[Len(stdout)] = Line("attractions_sample", <<>>)

C5_Witness ==
    /\ GenerateHandled
    /\ pc = "footer"
    /\ itinerary = <<"plan">>

C5_WitnessMalformed ==
    /\ GenerateHandled
    /\ pc = "footer"
    /\ call.value[1].has_choices
    /\ call.value[1].choices = <<>>
    /\ ui[Len(ui)].kind = "json"

\* C6: no printed line holds the resolved credential in full.
C6_NoFullCredentialPrinted ==
    Truthy(deepseek_api_key) =>
        \A i \in 1..Len(stdout) : stdout[i].value # deepseek_api_key

\* C7 as stated: a run that handles the generate action issues one
\* chat_completions invocation and no other.
C7_OneInvocationPerRun ==
    (widgets.generate_button /\ pc \in {"footer", "done", "crashed"}) => Len(calls) = 1

\* C7, amended: every run that gets as far as the client issues the connection
\* test's invocation first; a run that handles the generate action issues exactly
\* one more, for the prompt, and no third; a run that stops before the handler
\* (data or template failure) or without a click issues none for generation; and
\* every invocation starts from a fresh retry state.
C7_OneGenerationCallAfterConnTest ==
    /\ Len(calls) <= 2
    /\ Len(calls) >= 1 =>
          /\ calls[1].purpose = "test"
          /\ calls[1].request = Request("test_message", "0.7", 10)
    /\ Len(calls) = 2 =>
          /\ widgets.generate_button
          /\ calls[1].state # "running"
          /\ calls[2].purpose = "generate"
          /\ calls[2].request = Request("prompt", "0.7", 4000)
    /\ pc \in {"footer", "done", "crashed"} =>
          Len(calls) = IF widgets.generate_button THEN 2 ELSE 1
    /\ pc = "stopped" => Len(calls) <= 1
    /\ \A i \in 1..Len(calls) :
          calls[i].posts = <<>> =>
              /\ calls[i].attempt_number = 1
              /\ calls[i].delays = <<>>
              /\ calls[i].state = "running"

C7_Witness ==
    /\ pc = "done"
    /\ widgets.generate_button
    /\ Len(calls) = 2
    /\ Len(calls[1].posts) = 3
    /\ Len(calls[2].posts) = 1

\* the sources of the credential in the stated order, each with the non-empty
\* values it offers
SourceValues ==
    <<{process_env[n].val : n \in EnvNames} \ {<<>>},
      {SecretsGet(secrets)} \ {<<>>},
      {dotenv_file[n].val : n \in EnvNames} \ {<<>>},
      {widgets.text_input} \ {<<>>}>>

\* C8: the resolved credential comes from the first source, in the order process
\* environment, secrets, .env file, user entry, that offers a non-empty value.
C8_FirstNonEmptySourceWins ==
    pc \in {"client", "conn_test"} =>
        \A i \in 1..4 :
            (SourceValues[i] # {} /\ \A j \in 1..(i - 1) : SourceValues[j] = {}) =>
                deepseek_api_key \in SourceValues[i]

\* C9 as stated: the n-th delay of a call is min(2 * 2^(n-1), 20).
C9_DelaysDoubleFromTwo ==
    \A i \in 1..Len(calls) :
        \A n \in 1..Len(calls[i].delays) :
            calls[i].delays[n] = Min(2 * 2 ^ (n - 1), 20)

\* C9, amended: a call waits 2 before its 2nd attempt and 2 again before its
\* 3rd; the wait after attempt n is max(2, min(2^(n-1), 20)), that is 2, 2, 4, 8,
\* 16, 20, 20, ...: non-decreasing and never above 20.
C9_DelaysTwoThenTwo ==
    /\ \A i \in 1..Len(calls) :
          /\ calls[i].delays \in {<<>>, <<2>>, <<2, 2>>}
          /\ Len(calls[i].delays) = calls[i].attempt_number - 1
    /\ \A n \in 1..WaitProbe :
          /\ WaitExponential(n) = IF n <= 2 THEN 2 ELSE IF n <= 5 THEN 2 ^ (n - 1) ELSE 20
          /\ WaitExponential(n) <= WaitExponential(n + 1)
          /\ WaitExponential(n) <= 20

C9_Witness ==
    \E i \in 1..Len(calls) : calls[i].delays = <<2, 2>> /\ calls[i].state = "returned"

\* C10 as stated: a step of a running call leaves the client and all output
\* unchanged.
C10_CallChangesNothing ==
    [][call.state = "running" => (client' = client /\ ui' = ui)]_vars

\* what one attempt shows, by its outcome
ShownBy(o) ==
    IF IsErrorReply(o)
    THEN <<Ui("main", "error", "api_request_failed_http", ToString(o.status), <<>>)>>
         \o (IF o.body.json
             THEN <<Ui("main", "json", "", "",
                       <<[has_choices |-> o.body.has_choices, choices |-> o.body.choices]>>)>>
             ELSE <<>>)
    ELSE IF o.kind = "response" THEN <<>>
    ELSE <<Ui("main", "error", "network_error", o.kind, <<>>)>>

\* C10, amended: every attempt of a call, retried ones included, leaves the
\* client's api_key, base_url and headers and the script's variables unchanged
\* and prints one debug line; an attempt that gets a 2xx response shows nothing,
\* an attempt that fails with a transport error shows one error line, an attempt
\* that gets an error status shows one error line with the status and, when the
\* error body decodes, the body; and two calls of a run that met the same
\* backend outcomes end with the same result.
C10_CallEffects ==
    /\ [][call.state = "running" =>
             LET after == CallOf(calls')
                 o == after.posts[Len(after.posts)]
             IN  /\ client' = client
                 /\ <<deepseek_api_key, key_sources, os_environ, test_response, response,
                      itinerary, pc>>' =
                    <<deepseek_api_key, key_sources, os_environ, test_response, response,
                      itinerary, pc>>
                 /\ Len(after.posts) = Len(call.posts) + 1
                 /\ ui' = ui \o ShownBy(o)
                 /\ Len(stdout') = Len(stdout) + 1
                 /\ stdout'[Len(stdout')].value = <<>>]_vars
    /\ [](\A i, j \in 1..Len(calls) :
             (calls[i].state # "running" /\ calls[j].state # "running"
              /\ calls[i].posts = calls[j].posts) =>
                 /\ calls[i].state = calls[j].state
                 /\ calls[i].value = calls[j].value
                 /\ calls[i].exc = calls[j].exc)

C10_Witness ==
    /\ Len(calls) = 2
    /\ calls[1].posts = calls[2].posts
    /\ Len(calls[1].posts) = 3
    /\ calls[2].state = "returned"
    /\ client.exists

====
